---- MODULE Spec2Model ----
(***************************************************************************)
(* Model of two libcamera IPA units:                                       *)
(*   - the RkISP1 Black Level Correction algorithm                         *)
(*     (src/ipa/rkisp1/algorithms/blc.cpp): constructor, init, prepare;    *)
(*   - the Raspberry Pi camera helper for the EVDM-OOM1 module             *)
(*     (src/ipa/rpi/cam_helper/cam_helper_evdmoom1.cpp): gain mapping,     *)
(*     delays, transient frame counts, registration.                       *)
(***************************************************************************)
EXTENDS Integers, Sequences, FiniteSets

VARIABLES
    tuningParameters_,   \* BlackLevelCorrection::tuningParameters_
    blackLevelRed_,      \* BlackLevelCorrection::blackLevelRed_
    blackLevelGreenR_,   \* BlackLevelCorrection::blackLevelGreenR_
    blackLevelGreenB_,   \* BlackLevelCorrection::blackLevelGreenB_
    blackLevelBlue_,     \* BlackLevelCorrection::blackLevelBlue_
    assigned,            \* level fields written since construction
    op,                  \* the last call made: "new", "init", "prepare", ...
    blackLevel,          \* init: what context.camHelper->blackLevel() gave
    tuningData,          \* init: what tuningData[key].get<int16_t>() gave
    ret,                 \* init: the value returned
    log,                 \* init: the warnings logged
    frame,               \* prepare: the frame argument
    paramsIn,            \* prepare: *params on entry
    params,              \* prepare: *params on return
    repeated,            \* prepare: the buffer passed is the one the previous
                         \* acting prepare returned, with no init in between
    helper,              \* the camera helper instance in use
    arg,                 \* helper call: the argument
    result,              \* helper call: the value returned
    origin               \* gain: the gain whose code is the argument, if
                         \* the argument is what gainCode just returned

vars == <<tuningParameters_, blackLevelRed_, blackLevelGreenR_,
          blackLevelGreenB_, blackLevelBlue_, assigned, op, blackLevel,
          tuningData, ret, log, frame, paramsIn, params, repeated,
          helper, arg, result, origin>>

blcVars == <<tuningParameters_, blackLevelRed_, blackLevelGreenR_,
             blackLevelGreenB_, blackLevelBlue_, assigned, blackLevel,
             tuningData, ret, log, frame, paramsIn, params, repeated>>

helperVars == <<helper, arg, result, origin>>

----
\* std::optional<T>: the empty optional and an optional holding v.
None == <<>>

Some(v) == <<v>>

has_value(o) == o # None

value(o) == o[1]

value_or(o, d) == IF has_value(o) THEN value(o) ELSE d

\* The range of int16_t.
Int16Min == -(2^15)

Int16Max == 2^15 - 1

----
\* Bounds of the model.
MaxFrame == 2

MaxGainUnits == 1000

MaxGainCode == 48

----
\* The four colour channels, by tuning key.
Channels == {"R", "Gr", "Gb", "B"}

\* Values the tuning file lookups return, per key: absent, or an int16_t.
TuningOptions ==
    [R  |-> {None, Some(Int16Min)},
     Gr |-> {None, Some(4111)},
     Gb |-> {None, Some(Int16Max)},
     B  |-> {None, Some(15)}]

TuningInputs ==
    [R : TuningOptions.R, Gr : TuningOptions.Gr,
     Gb : TuningOptions.Gb, B : TuningOptions.B]

\* Values the camera sensor helper reports: none, or an int16_t.
BlackLevelInputs == {None, Some(256), Some(4096)}

\* The constructor leaves the four level fields uninitialised: until init
\* writes a field (assigned), it holds whatever its storage held, any
\* int16_t. Such a field is recorded as Uninitialised, which is a
\* placeholder for every value of Indeterminate and not a value itself.
Indeterminate == Int16Min..Int16Max

Uninitialised == "uninitialised"

\* The stored level of a channel, by tuning key.
Level(c) ==
    CASE c = "R"  -> blackLevelRed_
      [] c = "Gr" -> blackLevelGreenR_
      [] c = "Gb" -> blackLevelGreenB_
      [] c = "B"  -> blackLevelBlue_

\* The values the level field of channel c may hold in the program.
Holds(c) == IF c \in assigned THEN {Level(c)} ELSE Indeterminate

\* The modules of the ISP that have a bit in the three flag fields.
Modules == {"DPCC", "BLS", "SDG"}

RKISP1_CIF_ISP_MODULE_BLS == {"BLS"}

\* A rkisp1_params_cfg: the three flag fields, the BLS configuration and
\* (rest) everything else in others.
MkParams(en_update, ens, cfg_update, auto, r, gr, gb, b, rest) ==
    [module_en_update |-> en_update, module_ens |-> ens,
     module_cfg_update |-> cfg_update, enable_auto |-> auto,
     fixed_val |-> [r |-> r, gr |-> gr, gb |-> gb, b |-> b],
     rest |-> rest]

\* Buffers a caller hands to prepare.
ParamsInputs ==
    { MkParams({}, {}, {}, 0, 0, 0, 0, 0, "zero"),
      MkParams({"DPCC"}, {"DPCC", "SDG"}, {"SDG"}, 1, 7, -7, 256, 9, "set"),
      MkParams({"BLS"}, {"DPCC"}, {"BLS", "SDG"}, 1, 256, 256, 256, 256, "set") }

----
\* A shift by 3 bits.
ShiftRight3(x) == x \div 8

\* x >> 4 on an int16_t promoted to int: an arithmetic shift.
ShiftRight4(x) == x \div 16

\* bool tuningHasLevels = levelRed && levelGreenR && levelGreenB && levelBlue
tuningHasLevels(t) ==
    has_value(t.R) /\ has_value(t.Gr) /\ has_value(t.Gb) /\ has_value(t.B)

\* init with the last branch taking each tuning value that is present.
initResult_partialOverride(bl, t) ==
    IF ~has_value(bl)
    THEN [red |-> value_or(t.R, 4096), greenR |-> value_or(t.Gr, 4096),
          greenB |-> value_or(t.Gb, 4096), blue |-> value_or(t.B, 4096),
          log |-> {"No black levels provided by camera sensor helper"},
          ret |-> 0]
    ELSE IF tuningHasLevels(t)
    THEN [red |-> value(t.R), greenR |-> value(t.Gr),
          greenB |-> value(t.Gb), blue |-> value(t.B),
          log |-> {"Deprecated: black levels overwritten by tuning file"},
          ret |-> 0]
    ELSE [red |-> value_or(t.R, value(bl)),
          greenR |-> value_or(t.Gr, value(bl)),
          greenB |-> value_or(t.Gb, value(bl)),
          blue |-> value_or(t.B, value(bl)),
          log |-> {}, ret |-> 0]

\* init with the sensor's black level taking precedence over the tuning file.
initResult_sensorPrecedence(bl, t) ==
    IF ~has_value(bl)
    THEN [red |-> value_or(t.R, 4096), greenR |-> value_or(t.Gr, 4096),
          greenB |-> value_or(t.Gb, 4096), blue |-> value_or(t.B, 4096),
          log |-> {"No black levels provided by camera sensor helper"},
          ret |-> 0]
    ELSE [red |-> value(bl), greenR |-> value(bl),
          greenB |-> value(bl), blue |-> value(bl),
          log |-> {}, ret |-> 0]

\* init with the first branch falling back to 4096 for all four channels
\* unless all four tuning values are present.
initResult_allOrNothing(bl, t) ==
    IF ~has_value(bl)
    THEN IF tuningHasLevels(t)
         THEN [red |-> value(t.R), greenR |-> value(t.Gr),
               greenB |-> value(t.Gb), blue |-> value(t.B),
               log |-> {"No black levels provided by camera sensor helper"},
               ret |-> 0]
         ELSE [red |-> 4096, greenR |-> 4096, greenB |-> 4096, blue |-> 4096,
               log |-> {"No black levels provided by camera sensor helper"},
               ret |-> 0]
    ELSE IF tuningHasLevels(t)
    THEN [red |-> value(t.R), greenR |-> value(t.Gr),
          greenB |-> value(t.Gb), blue |-> value(t.B),
          log |-> {"Deprecated: black levels overwritten by tuning file"},
          ret |-> 0]
    ELSE [red |-> value(bl), greenR |-> value(bl),
          greenB |-> value(bl), blue |-> value(bl),
          log |-> {}, ret |-> 0]

\* init failing with -EINVAL when neither the sensor helper nor the tuning
\* file has all the levels.
initResult_rejects(bl, t) ==
    IF ~has_value(bl)
    THEN [red |-> value_or(t.R, 4096), greenR |-> value_or(t.Gr, 4096),
          greenB |-> value_or(t.Gb, 4096), blue |-> value_or(t.B, 4096),
          log |-> {"No black levels provided by camera sensor helper"},
          ret |-> IF tuningHasLevels(t) THEN 0 ELSE -22]
    ELSE IF tuningHasLevels(t)
    THEN [red |-> value(t.R), greenR |-> value(t.Gr),
          greenB |-> value(t.Gb), blue |-> value(t.B),
          log |-> {"Deprecated: black levels overwritten by tuning file"},
          ret |-> 0]
    ELSE [red |-> value(bl), greenR |-> value(bl),
          greenB |-> value(bl), blue |-> value(bl),
          log |-> {}, ret |-> 0]

\* What init computes from the sensor's black level bl and the tuning
\* lookups t: the four levels, the warnings logged and the value returned.
initResult(bl, t) ==
    IF ~has_value(bl)
    THEN [red |-> value_or(t.R, 4096), greenR |-> value_or(t.Gr, 4096),
          greenB |-> value_or(t.Gb, 4096), blue |-> value_or(t.B, 4096),
          log |-> {"No black levels provided by camera sensor helper"},
          ret |-> 0]
    ELSE IF tuningHasLevels(t)
    THEN [red |-> value(t.R), greenR |-> value(t.Gr),
          greenB |-> value(t.Gb), blue |-> value(t.B),
          log |-> {"Deprecated: black levels overwritten by tuning file"},
          ret |-> 0]
    ELSE [red |-> value(bl), greenR |-> value(bl),
          greenB |-> value(bl), blue |-> value(bl),
          log |-> {}, ret |-> 0]

\* prepare without the frame check.
prepareResult_anyFrame(f, active, red, greenR, greenB, blue, p) ==
    IF ~active THEN p
    ELSE [p EXCEPT
            !.enable_auto = 0,
            !.fixed_val.r = ShiftRight4(red),
            !.fixed_val.gr = ShiftRight4(greenR),
            !.fixed_val.gb = ShiftRight4(greenB),
            !.fixed_val.b = ShiftRight4(blue),
            !.module_en_update = @ \cup RKISP1_CIF_ISP_MODULE_BLS,
            !.module_ens = @ \cup RKISP1_CIF_ISP_MODULE_BLS,
            !.module_cfg_update = @ \cup RKISP1_CIF_ISP_MODULE_BLS]

\* prepare with the two green levels exchanged.
prepareResult_greensSwapped(f, active, red, greenR, greenB, blue, p) ==
    IF f > 0 THEN p
    ELSE IF ~active THEN p
    ELSE [p EXCEPT
            !.enable_auto = 0,
            !.fixed_val.r = ShiftRight4(red),
            !.fixed_val.gr = ShiftRight4(greenB),
            !.fixed_val.gb = ShiftRight4(greenR),
            !.fixed_val.b = ShiftRight4(blue),
            !.module_en_update = @ \cup RKISP1_CIF_ISP_MODULE_BLS,
            !.module_ens = @ \cup RKISP1_CIF_ISP_MODULE_BLS,
            !.module_cfg_update = @ \cup RKISP1_CIF_ISP_MODULE_BLS]

\* prepare with the flag fields assigned (=) where the code ors (|=).
prepareResult_flagsAssigned(f, active, red, greenR, greenB, blue, p) ==
    IF f > 0 THEN p
    ELSE IF ~active THEN p
    ELSE [p EXCEPT
            !.enable_auto = 0,
            !.fixed_val.r = ShiftRight4(red),
            !.fixed_val.gr = ShiftRight4(greenR),
            !.fixed_val.gb = ShiftRight4(greenB),
            !.fixed_val.b = ShiftRight4(blue),
            !.module_en_update = RKISP1_CIF_ISP_MODULE_BLS,
            !.module_ens = RKISP1_CIF_ISP_MODULE_BLS,
            !.module_cfg_update = RKISP1_CIF_ISP_MODULE_BLS]

\* What prepare leaves in *params, given the frame number f, the object's
\* fields and *params on entry p.
prepareResult(f, active, red, greenR, greenB, blue, p) ==
    IF f > 0 THEN p
    ELSE IF ~active THEN p
    ELSE [p EXCEPT
            !.enable_auto = 0,
            !.fixed_val.r = ShiftRight4(red),
            !.fixed_val.gr = ShiftRight4(greenR),
            !.fixed_val.gb = ShiftRight4(greenB),
            !.fixed_val.b = ShiftRight4(blue),
            !.module_en_update = @ \cup RKISP1_CIF_ISP_MODULE_BLS,
            !.module_ens = @ \cup RKISP1_CIF_ISP_MODULE_BLS,
            !.module_cfg_update = @ \cup RKISP1_CIF_ISP_MODULE_BLS]

----
\* BlackLevelCorrection::BlackLevelCorrection(): tuningParameters_(false);
\* the four levels are left uninitialised.
BlackLevelCorrection_new ==
    /\ tuningParameters_ = FALSE
    /\ blackLevelRed_ = Uninitialised
    /\ blackLevelGreenR_ = Uninitialised
    /\ blackLevelGreenB_ = Uninitialised
    /\ blackLevelBlue_ = Uninitialised
    /\ assigned = {}
    /\ blackLevel = None
    /\ tuningData = [R |-> None, Gr |-> None, Gb |-> None, B |-> None]
    /\ ret = None
    /\ log = {}
    /\ frame = 0
    /\ paramsIn \in ParamsInputs
    /\ params = paramsIn
    /\ repeated = FALSE

\* BlackLevelCorrection::init(context, tuningData)
BlackLevelCorrection_init ==
    \E bl \in BlackLevelInputs, t \in TuningInputs :
        LET r == initResult(bl, t) IN
        /\ blackLevel' = bl
        /\ tuningData' = t
        /\ blackLevelRed_' = r.red
        /\ blackLevelGreenR_' = r.greenR
        /\ blackLevelGreenB_' = r.greenB
        /\ blackLevelBlue_' = r.blue
        /\ assigned' = Channels
        /\ tuningParameters_' = TRUE
        /\ log' = r.log
        /\ ret' = Some(r.ret)
        /\ op' = "init"
        /\ repeated' = FALSE
        /\ UNCHANGED <<frame, paramsIn, params, helperVars>>

\* BlackLevelCorrection::prepare(context, frame, frameContext, params)
BlackLevelCorrection_prepare ==
    \E f \in 0..MaxFrame, p \in ParamsInputs \cup {params} :
        /\ frame' = f
        /\ paramsIn' = p
        /\ params' = prepareResult(f, tuningParameters_, blackLevelRed_,
                                   blackLevelGreenR_, blackLevelGreenB_,
                                   blackLevelBlue_, p)
        /\ repeated' = (/\ op = "prepare" /\ frame = 0 /\ tuningParameters_
                        /\ p = params)
        /\ op' = "prepare"
        /\ UNCHANGED <<tuningParameters_, blackLevelRed_, blackLevelGreenR_,
                       blackLevelGreenB_, blackLevelBlue_, assigned,
                       blackLevel, tuningData, ret, log, helperVars>>

----
\* A double is modelled as a whole number of 1/GainDen: the grid holds the
\* hundredths (1.03 is 412/400) and the sixteenths (1/16 is 25/400), and a
\* product or quotient by 16.0 is exact in binary floating point.
GainDen == 16 * 25

\* Gains passed to gainCode. Below -1/16 the conversion to uint32_t is
\* undefined; from there up to 0 it is defined and gives 0.
GainInputs == (1 - (GainDen \div 16)) .. MaxGainUnits

\* static_cast<uint32_t>(x) of a double x = n/d in range: the fractional
\* part is discarded, truncating toward zero.
Truncate(n, d) == IF n >= 0 THEN n \div d ELSE -((-n) \div d)

\* gainCode rounding to the nearest code.
gainCode_nearest(g) == (2 * g * 16 + GainDen) \div (2 * GainDen)

\* uint32_t CamHelperEvdmOOM1::gainCode(double gain)
gainCode(g) == Truncate(g * 16, GainDen)

\* double CamHelperEvdmOOM1::gain(uint32_t gainCode)
gain(c) == (c * GainDen) \div 16

\* getDelays with a gain delay of one frame.
getDelays_gainDelay1 ==
    [exposureDelay |-> 2, gainDelay |-> 1, vblankDelay |-> 2,
     hblankDelay |-> 2]

\* void CamHelperEvdmOOM1::getDelays(...)
getDelays ==
    [exposureDelay |-> 2, gainDelay |-> 2, vblankDelay |-> 2,
     hblankDelay |-> 2]

sensorEmbeddedDataPresent == FALSE

hideFramesStartup == 2

hideFramesModeSwitch == 2

mistrustFramesStartup == 2

mistrustFramesModeSwitch == 2

\* static RegisterCamHelper reg("evdmoom1", &create): the table entry.
reg == [name |-> "evdmoom1", create |-> "CamHelperEvdmOOM1"]

----
\* The factory registered under reg.name is called: create() returns a new
\* CamHelperEvdmOOM1.
Create ==
    /\ helper' = reg.create
    /\ arg' = reg.name
    /\ result' = reg.create
    /\ origin' = None
    /\ op' = "create"
    /\ UNCHANGED blcVars

\* A call of a member function of the instance: op names it.
Call(name, a, r, o) ==
    /\ helper = "CamHelperEvdmOOM1"
    /\ op' = name
    /\ arg' = a
    /\ result' = r
    /\ origin' = o
    /\ UNCHANGED <<helper, blcVars>>

CallGainCode == \E g \in GainInputs : Call("gainCode", g, gainCode(g), None)

CallGain ==
    \/ \E c \in 0..MaxGainCode : Call("gain", c, gain(c), None)
    \/ op = "gainCode" /\ Call("gain", result, gain(result), Some(arg))

CallGetDelays == Call("getDelays", 0, getDelays, None)

CallSensorEmbeddedDataPresent ==
    Call("sensorEmbeddedDataPresent", 0, sensorEmbeddedDataPresent, None)

CallHideFramesStartup ==
    Call("hideFramesStartup", 0, hideFramesStartup, None)

CallHideFramesModeSwitch ==
    Call("hideFramesModeSwitch", 0, hideFramesModeSwitch, None)

CallMistrustFramesStartup ==
    Call("mistrustFramesStartup", 0, mistrustFramesStartup, None)

CallMistrustFramesModeSwitch ==
    Call("mistrustFramesModeSwitch", 0, mistrustFramesModeSwitch, None)

----
NoHelper ==
    /\ helper = "none"
    /\ arg = 0
    /\ result = 0
    /\ origin = None

Init ==
    /\ BlackLevelCorrection_new
    /\ op = "new"
    /\ NoHelper

\* The helper on its own: one BlackLevelCorrection, never called.
InitHelper ==
    /\ BlackLevelCorrection_new
    /\ paramsIn.rest = "zero"
    /\ op = "new"
    /\ NoHelper

NextHelper ==
    \/ Create
    \/ CallGainCode
    \/ CallGain
    \/ CallGetDelays
    \/ CallSensorEmbeddedDataPresent
    \/ CallHideFramesStartup
    \/ CallHideFramesModeSwitch
    \/ CallMistrustFramesStartup
    \/ CallMistrustFramesModeSwitch

SpecHelper == InitHelper /\ [][NextHelper]_vars

Next ==
    \/ BlackLevelCorrection_init
    \/ BlackLevelCorrection_prepare

Spec == Init /\ [][Next]_vars

----
\* Properties.

\* The fixed value written for a channel in a parameter buffer.
Fixed(p, c) ==
    CASE c = "R"  -> p.fixed_val.r
      [] c = "Gr" -> p.fixed_val.gr
      [] c = "Gb" -> p.fixed_val.gb
      [] c = "B"  -> p.fixed_val.b

\* The tuning keys present at the last init.
Present == {c \in Channels : tuningData[c] # None}

\* An init call has returned.
InitDone == ret # None

\* The last call is a prepare that acted: frame 0 on an active instance.
Acted == op = "prepare" /\ frame = 0 /\ tuningParameters_

FlagFields == {"module_en_update", "module_ens", "module_cfg_update"}

\* C1: after init with a sensor black level and fewer than four tuning keys
\* present, all four stored levels are the sensor's value; no tuning value
\* is used.
C1_SensorLevelWhenTuningIncomplete ==
    (InitDone /\ blackLevel # None /\ Cardinality(Present) < 4)
        => \A c \in Channels : Level(c) = blackLevel[1]

C1_Witness ==
    /\ InitDone
    /\ blackLevel = Some(256)
    /\ Present = {"R", "Gr", "Gb"}
    /\ \A c \in Channels : Level(c) = 256

\* C2: after init with a sensor black level and all four tuning keys present,
\* each stored level is its channel's tuning value and the deprecation warning
\* is logged; the deprecation warning is logged in that case only.
C2_TuningOverridesSensor ==
    InitDone =>
        /\ (blackLevel # None /\ Present = Channels)
              => /\ \A c \in Channels : Level(c) = tuningData[c][1]
                 /\ "Deprecated: black levels overwritten by tuning file"
                        \in log
        /\ "Deprecated: black levels overwritten by tuning file" \in log
              => (blackLevel # None /\ Present = Channels)

C2_Witness ==
    /\ InitDone
    /\ blackLevel = Some(4096)
    /\ Present = Channels
    /\ blackLevelRed_ = Int16Min
    /\ blackLevelGreenR_ = 4111
    /\ blackLevelGreenB_ = Int16Max
    /\ blackLevelBlue_ = 15
    /\ log = {"Deprecated: black levels overwritten by tuning file"}

\* C3: after init without a sensor black level, each stored level is its own
\* channel's tuning value if the key is present and 4096 if it is absent, and
\* the missing-calibration warning is logged.
C3_PerChannelFallback ==
    (InitDone /\ blackLevel = None) =>
        /\ \A c \in Channels :
              Level(c) = IF c \in Present THEN tuningData[c][1] ELSE 4096
        /\ "No black levels provided by camera sensor helper" \in log

C3_Witness ==
    /\ InitDone
    /\ blackLevel = None
    /\ Present = {"Gr", "B"}
    /\ blackLevelRed_ = 4096
    /\ blackLevelGreenR_ = 4111
    /\ blackLevelGreenB_ = 4096
    /\ blackLevelBlue_ = 15

\* C4: a prepare call leaves the parameter buffer as it found it unless its
\* frame number is 0 and an init call has completed before it.
C4_PrepareNoOp ==
    (op = "prepare" /\ (frame > 0 \/ ~InitDone)) => params = paramsIn

C4_Witness ==
    /\ op = "prepare"
    /\ frame > 0
    /\ InitDone
    /\ tuningParameters_
    /\ params = paramsIn
    /\ "BLS" \notin params.module_ens

\* C5: a prepare that acts writes for each channel the stored level shifted
\* right by 4 bits (4096 gives 256) and leaves the BLS bit set in all three
\* flag fields.
C5_PrepareWrites ==
    Acted =>
        /\ \A c \in Channels :
              /\ 16 * Fixed(params, c) <= Level(c)
              /\ Level(c) < 16 * Fixed(params, c) + 16
              /\ Level(c) = 4096 => Fixed(params, c) = 256
        /\ \A fld \in FlagFields : "BLS" \in params[fld]

C5_Witness ==
    /\ Acted
    /\ \A c \in Channels : Level(c) = 4096 /\ Fixed(params, c) = 256
    /\ \A fld \in FlagFields : "BLS" \in params[fld] /\ "BLS" \notin paramsIn[fld]

\* C6: init returns 0 for every input, leaves the active flag set and all four
\* levels written, and the active flag stays set whatever is called later.
C6_InitSucceeds ==
    /\ [](InitDone =>
            /\ ret = Some(0)
            /\ tuningParameters_
            /\ assigned = Channels
            /\ \A c \in Channels :
                  Holds(c) = {Level(c)} /\ Level(c) \in Int16Min..Int16Max)
    /\ [][tuningParameters_ => tuningParameters_']_vars

C6_Witness ==
    /\ op = "prepare"
    /\ ret = Some(0)
    /\ blackLevel = None
    /\ Present = {}
    /\ tuningParameters_
    /\ assigned = Channels

\* C7: gainCode(g) is floor(g * 16) for a gain g >= 0 (1.03 gives 16),
\* gain(c) is c / 16, and gain(gainCode(g)) is at most g and less than 1/16
\* below it.
C7_GainCodeTruncates ==
    /\ (op = "gainCode" /\ arg >= 0) =>
          /\ result * GainDen <= arg * 16
          /\ arg * 16 < (result + 1) * GainDen
          /\ 100 * arg = 103 * GainDen => result = 16
    /\ op = "gain" =>
          /\ result * 16 = arg * GainDen
          /\ (origin # None /\ origin[1] >= 0) =>
                /\ result <= origin[1]
                /\ 16 * (origin[1] - result) < GainDen

C7_Witness ==
    /\ op = "gain"
    /\ origin # None
    /\ 100 * origin[1] = 103 * GainDen
    /\ arg = 16
    /\ result = GainDen

\* C8: the instance registered as "evdmoom1" reports on every call delays of
\* 2 frames for exposure, gain, vblank and hblank, hide and mistrust counts
\* of 2, and no embedded data.
C8_HelperConstants ==
    /\ (op = "create" /\ arg = "evdmoom1") => helper = "CamHelperEvdmOOM1"
    /\ op = "getDelays" =>
          /\ result.exposureDelay = 2 /\ result.gainDelay = 2
          /\ result.vblankDelay = 2 /\ result.hblankDelay = 2
    /\ op = "hideFramesStartup" => result = 2
    /\ op = "hideFramesModeSwitch" => result = 2
    /\ op = "mistrustFramesStartup" => result = 2
    /\ op = "mistrustFramesModeSwitch" => result = 2
    /\ op = "sensorEmbeddedDataPresent" => result = FALSE

C8_Witness ==
    /\ op = "getDelays"
    /\ helper = "CamHelperEvdmOOM1"
    /\ result.gainDelay = 2

\* C9 as stated: after init every stored level is within 0..4095.
C9_LevelsWithin12Bits ==
    InitDone => \A c \in Channels : Level(c) \in 0..4095

\* C9 amended: after init every stored level is a signed 16-bit value, and
\* the value a prepare that acts writes for it is within the signed 12-bit
\* range -2048..2047.
C9_LevelsWithin16Bits ==
    /\ InitDone => \A c \in Channels : Level(c) \in Int16Min..Int16Max
    /\ Acted => \A c \in Channels : Fixed(params, c) \in -2048..2047

C9_Witness ==
    /\ Acted
    /\ blackLevelRed_ = Int16Min /\ params.fixed_val.r = -2048
    /\ blackLevelGreenB_ = Int16Max /\ params.fixed_val.gb = 2047

\* C10: a prepare that acts only adds the BLS bit to the three flag fields,
\* sets enable_auto to 0 and changes nothing else outside the four fixed
\* values; a second such call on its own output changes nothing.
C10_PrepareTouchesOnlyBls ==
    Acted =>
        /\ \A fld \in FlagFields :
              /\ paramsIn[fld] \subseteq params[fld]
              /\ params[fld] \ paramsIn[fld] \subseteq {"BLS"}
        /\ params.enable_auto = 0
        /\ params.rest = paramsIn.rest
        /\ DOMAIN params = DOMAIN paramsIn
        /\ DOMAIN params.fixed_val = DOMAIN paramsIn.fixed_val
        /\ repeated => params = paramsIn

C10_Witness ==
    /\ Acted
    /\ repeated
    /\ params = paramsIn
    /\ "SDG" \in params.module_ens
    /\ "DPCC" \in params.module_en_update

====
